---- MODULE Spec2Model ----
(***************************************************************************)
(* Model of the shift-time and performance-normalisation code of polkuweb  *)
(* (utils.ts, PerformanceModal.tsx, App.tsx).                              *)
(*                                                                         *)
(* Number representation.  The program computes with JavaScript doubles;   *)
(* the model computes with exact decimals held in integers:                *)
(*   - hours and performance values are counted in hundredths (8 h = 800,  *)
(*     7.25 = 725): the form's hours field is written with toFixed(2);     *)
(*   - effective hours are counted in units of 0.00001 h (hundredths times *)
(*     thousandths, the scale of hours * 0.967), so 7.25 h = 725000;       *)
(*   - a Date is its getTime() counted in minutes from local midnight of   *)
(*     day 0 (the day `new Date(0, 0, 0)` names);                          *)
(*   - a string is a sequence of one-character strings.                    *)
(***************************************************************************)
EXTENDS Integers, Sequences, FiniteSets, TLC

VARIABLES
  pc,          \* position of the call or handler in progress
  entry,       \* utils.ts: the DateData handed to the calculator
  eff,         \* utils.ts: result of effectiveHours
  pct,         \* utils.ts: result of computePerformancePercentage
  value,       \* utils.ts: the mean handed to calculatePercentage
  percentage,  \* utils.ts: result of calculatePercentage
  start,       \* PerformanceModal.tsx: computeHoursFromTimes' start string
  end,         \* PerformanceModal.tsx: computeHoursFromTimes' end string
  diff,        \* PerformanceModal.tsx: its result, in minutes (hours * 60)
  time,        \* PerformanceModal.tsx: addHours' time string
  hoursToAdd,  \* PerformanceModal.tsx: addHours' number of hours
  added,       \* PerformanceModal.tsx: addHours' result string
  now,         \* the wall clock `new Date()` reads: [hr, min]
  shift,       \* App.tsx: result of getOngoingShift
  defaultStart, \* PerformanceModal.tsx: result of getDefaultStartTime
  date,        \* App.tsx: the selected date [year, month (0-based), day]
  data,        \* App.tsx: date string -> DailyData
  period,      \* App.tsx: 'Jakso 1' or 'Jakso 2'
  overallAverageNormal,   \* App.tsx: the mean shown for the normal track
  overallAverageForklift, \* App.tsx: the mean shown for the forklift track
  showModal,   \* App.tsx: whether the PerformanceModal is shown
  autoShift,   \* App.tsx: the shift found when the modal was opened
  formData,    \* App.tsx: the fields of the form
  stored,      \* localforage: what 'calendarData' holds, <<>> for null
  ops,         \* localforage: the requests made and not yet carried out
  resolved     \* App.tsx: getItem results whose then-callback has not run

calcVars == <<entry, eff, pct>>

scaleVars == <<value, percentage>>

timeVars == <<start, end, diff, time, hoursToAdd, added>>

shiftVars == <<now, shift, defaultStart>>

dataVars == <<date, data, period>>

avgVars == <<overallAverageNormal, overallAverageForklift>>

formVars == <<showModal, autoShift, formData>>

storeVars == <<stored, ops, resolved>>

appVars == <<dataVars, avgVars, formVars, storeVars>>

pureVars == <<calcVars, scaleVars, timeVars>>

------------------------------------------------------------------------------
(* Bounds of the model.                                                      *)

\* largest hours value handed to effectiveHours, in hundredths of an hour
MaxHoursIn == 1700
\* performance values handed to the scorer: -MaxPerfQ..MaxPerfQ quarters
MaxPerfQ == 44
\* means handed to calculatePercentage: -MaxValue..MaxValue hundredths
MaxValue == 1500
\* hours handed to addHours: -MaxDelta..MaxDelta
MaxDelta == 30
\* days of the month that may hold a record when the means are computed
MaxDays == 3
\* storage requests and getItem results that may be outstanding at once
MaxPending == 3

------------------------------------------------------------------------------
(* JavaScript Math.                                                          *)

Max2(a, b) == IF a >= b THEN a ELSE b

Min2(a, b) == IF a <= b THEN a ELSE b

\* num / den rounded to the nearest integer, a half going down
MathRoundHalfDown(num, den) == -((den - 2 * num) \div (2 * den))

\* (num / den).toFixed(2) for num in hundredths and den > 0, in hundredths:
\* the nearest hundredth, a half going away from zero
ToFixed2(num, den) ==
  IF num >= 0 THEN (2 * num + den) \div (2 * den)
              ELSE -((2 * (-num) + den) \div (2 * den))

\* Math.round(num / den) for den > 0: floor(num / den + 0.5), a half goes up
MathRound(num, den) == (2 * num + den) \div (2 * den)

------------------------------------------------------------------------------
(* JavaScript strings, as sequences of characters.                           *)

Digits == <<"0", "1", "2", "3", "4", "5", "6", "7", "8", "9">>

IsDigit(c) == \E i \in 1..10 : Digits[i] = c

DigitVal(c) == (CHOOSE i \in 1..10 : Digits[i] = c) - 1

NaN == [nan |-> TRUE, v |-> 0]

Num(n) == [nan |-> FALSE, v |-> n]

\* the value of the decimal digits s[1..n]
RECURSIVE DigitsVal(_, _)
DigitsVal(s, n) ==
  IF n = 0 THEN 0 ELSE 10 * DigitsVal(s, n - 1) + DigitVal(s[n])

\* the length of the longest prefix of digits of s
RECURSIVE DigitPrefix(_)
DigitPrefix(s) ==
  IF s = <<>> \/ ~IsDigit(Head(s)) THEN 0 ELSE 1 + DigitPrefix(Tail(s))

\* Number(s) for a string of digits: the empty string is 0, a string holding
\* anything but digits is NaN
Number(s) ==
  IF DigitPrefix(s) = Len(s) THEN Num(DigitsVal(s, Len(s))) ELSE NaN

\* parseInt(s, 10) for an unsigned string: the digits it starts with
parseInt(s) ==
  IF DigitPrefix(s) = 0 THEN NaN ELSE Num(DigitsVal(s, DigitPrefix(s)))

\* s.split(':')
RECURSIVE Split(_)
Split(s) ==
  IF \A i \in 1..Len(s) : s[i] # ":"
    THEN <<s>>
    ELSE LET i == CHOOSE j \in 1..Len(s) :
                    s[j] = ":" /\ \A k \in 1..(j - 1) : s[k] # ":"
         IN  <<SubSeq(s, 1, i - 1)>> \o Split(SubSeq(s, i + 1, Len(s)))

\* n.toString() for an integer n >= 0
RECURSIVE toString(_)
toString(n) ==
  IF n < 10 THEN <<Digits[n + 1]>> ELSE toString(n \div 10) \o <<Digits[(n % 10) + 1]>>

\* s.padStart(2, '0')
PadStart2(s) == IF Len(s) >= 2 THEN s ELSE IF Len(s) = 1 THEN <<"0">> \o s ELSE <<"0", "0">>

------------------------------------------------------------------------------
(* JavaScript Date, as minutes from local midnight of day 0.                 *)

\* new Date(0, 0, day, h, m)
NewDate(day, h, m) == day * 1440 + h * 60 + m

getHours(d) == (d % 1440) \div 60

getMinutes(d) == d % 60

\* d.setHours(h): the same day and minutes with the hour field h, which may
\* lie outside 0..23 and then moves the day
setHours(d, h) == (d \div 1440) * 1440 + h * 60 + getMinutes(d)

------------------------------------------------------------------------------
(* utils.ts                                                                  *)

OvertimeRate == 967

BaseEffective == 725000

BreakDeduction == 75

\* effectiveHours with the overtime branch tested before the free-day branch
effectiveHoursOvertimeFirst(hours, overtime, freeDay) ==
  IF overtime
    THEN BaseEffective + (Max2(800, Min2(hours, 1600)) - 800) * OvertimeRate
    ELSE IF freeDay
      THEN hours * OvertimeRate
      ELSE IF hours < 400
        THEN hours * 1000
        ELSE IF hours <= 800
          THEN (hours - BreakDeduction) * 1000
          ELSE BaseEffective + (hours - 800) * OvertimeRate

\* effectiveHours without the clamp of the overtime branch
effectiveHoursNoClamp(hours, overtime, freeDay) ==
  IF freeDay
    THEN hours * OvertimeRate
    ELSE IF overtime
      THEN BaseEffective + (hours - 800) * OvertimeRate
      ELSE IF hours < 400
        THEN hours * 1000
        ELSE IF hours <= 800
          THEN (hours - BreakDeduction) * 1000
          ELSE BaseEffective + (hours - 800) * OvertimeRate

\* effectiveHours deducting the break from shifts under 4 hours too
effectiveHoursAlwaysDeduct(hours, overtime, freeDay) ==
  IF freeDay
    THEN hours * OvertimeRate
    ELSE IF overtime
      THEN BaseEffective + (Max2(800, Min2(hours, 1600)) - 800) * OvertimeRate
      ELSE IF hours <= 800
        THEN (hours - BreakDeduction) * 1000
        ELSE BaseEffective + (hours - 800) * OvertimeRate

\* hours in hundredths; the result in units of 0.00001 h
effectiveHours(hours, overtime, freeDay) ==
  IF freeDay
    THEN hours * OvertimeRate
    ELSE IF overtime
      THEN LET clampedHours == Max2(800, Min2(hours, 1600))
           IN  BaseEffective + (clampedHours - 800) * OvertimeRate
      ELSE IF hours < 400
        THEN hours * 1000
        ELSE IF hours <= 800
          THEN (hours - BreakDeduction) * 1000
          ELSE BaseEffective + (hours - 800) * OvertimeRate

\* computePerformancePercentage rounding a half down
computePerformancePercentageHalfDown(e) ==
  LET eff0 == effectiveHours(e.hours, e.overtime, e.freeDay)
  IN  IF eff0 <= 0 THEN 0 ELSE MathRoundHalfDown(e.performance * 100000, eff0)

\* performance in hundredths (= 1000 units of 0.00001), so
\* (performance / eff) * 100 = performance * 100000 / eff
computePerformancePercentage(e) ==
  LET eff0 == effectiveHours(e.hours, e.overtime, e.freeDay)
  IN  IF eff0 <= 0 THEN 0 ELSE MathRound(e.performance * 100000, eff0)

BandLow == 725

BandHigh == 1088

\* calculatePercentage clamped to the display band
calculatePercentageClamped(v) ==
  Max2(100, Min2(150, MathRound((v - BandLow) * 50 + 100 * (BandHigh - BandLow),
                                BandHigh - BandLow)))

\* v in hundredths: ((v - 7.25) / (10.88 - 7.25)) * 50 + 100 over the common
\* denominator 10.88 - 7.25
calculatePercentage(v) ==
  MathRound((v - BandLow) * 50 + 100 * (BandHigh - BandLow), BandHigh - BandLow)

\* Number(obj.performance): a property the object lacks reads as undefined,
\* and Number(undefined) is NaN
NumberOfPerformance(obj) ==
  IF "performance" \in DOMAIN obj THEN Num(obj.performance) ELSE NaN

\* new Date(dateString + "T00:00:00"): local midnight of "YYYY-MM-DD"
ParseDate(dateString) ==
  [year |-> DigitsVal(SubSeq(dateString, 1, 4), 4),
   month |-> DigitsVal(SubSeq(dateString, 6, 7), 2) - 1,
   day |-> DigitsVal(SubSeq(dateString, 9, 10), 2)]

RECURSIVE SumPerformance(_, _)
SumPerformance(d, keys) ==
  IF keys = {} THEN 0
  ELSE LET k == CHOOSE x \in keys : TRUE
           perf == NumberOfPerformance(d[k])
       IN  (IF perf.nan THEN 0 ELSE perf.v) + SumPerformance(d, keys \ {k})

\* App.tsx's filterDates, a closure over period, which calculateAverage
\* is handed
filterDates(per, d) ==
  IF per = "Jakso 1" THEN d.day >= 1 /\ d.day <= 15 ELSE d.day >= 16

\* calculateAverage(data, filterDates), filterDates given by the period it
\* closes over; the result, a string of two decimals, as its value in
\* hundredths
calculateAverage(d, per) ==
  LET filteredDates == {k \in DOMAIN d : filterDates(per, ParseDate(k))}
      total == SumPerformance(d, filteredDates)
      n == Cardinality(filteredDates)
  IN  IF n > 0 THEN ToFixed2(total, n) ELSE 0

------------------------------------------------------------------------------
(* PerformanceModal.tsx                                                      *)

\* computeHoursFromTimes moving the end to the next day when the whole end
\* time, not its hour alone, is earlier than the start
computeHoursFromTimesWholeTime(s, e) ==
  IF s = <<>> \/ e = <<>>
    THEN Num(0)
    ELSE LET sh == Number(Split(s)[1])
             sm == Number(Split(s)[2])
             eh == Number(Split(e)[1])
             em == Number(Split(e)[2])
         IN  IF sh.nan \/ sm.nan \/ eh.nan \/ em.nan
               THEN NaN
               ELSE LET startDate == NewDate(0, sh.v, sm.v)
                        endDate == IF eh.v * 60 + em.v < sh.v * 60 + sm.v
                                     THEN NewDate(1, eh.v, em.v)
                                     ELSE NewDate(0, eh.v, em.v)
                        d == endDate - startDate
                    IN  Num(IF d < 0 THEN 0 ELSE d)

\* the result is in minutes: getTime() differences / (1000 * 60), 60 to the hour
computeHoursFromTimes(s, e) ==
  IF s = <<>> \/ e = <<>>
    THEN Num(0)
    ELSE LET sh == Number(Split(s)[1])
             sm == Number(Split(s)[2])
             eh == Number(Split(e)[1])
             em == Number(Split(e)[2])
         IN  IF sh.nan \/ sm.nan \/ eh.nan \/ em.nan
               THEN NaN
               ELSE LET startDate == NewDate(0, sh.v, sm.v)
                        endDate == IF eh.v < sh.v
                                     THEN NewDate(1, eh.v, em.v)
                                     ELSE NewDate(0, eh.v, em.v)
                        d == endDate - startDate
                    IN  Num(IF d < 0 THEN 0 ELSE d)

\* addHours writing the hour without padStart
addHoursUnpadded(t, h) ==
  LET hour == parseInt(Split(t)[1]).v
      minute == parseInt(Split(t)[2]).v
      date1 == setHours(NewDate(0, hour, minute), getHours(NewDate(0, hour, minute)) + h)
  IN  toString(getHours(date1)) \o <<":">> \o PadStart2(toString(getMinutes(date1)))

\* a part split(':') does not yield is undefined, which parseInt reads as
\* NaN; a Date built from NaN is invalid, its getHours() and getMinutes()
\* are NaN, and "NaN" is not padded
addHours(t, h) ==
  LET parts == Split(t)
      hour == parseInt(parts[1])
      minute == IF Len(parts) >= 2 THEN parseInt(parts[2]) ELSE NaN
  IN  IF hour.nan \/ minute.nan
        THEN <<"N", "a", "N", ":", "N", "a", "N">>
        ELSE LET date0 == NewDate(0, hour.v, minute.v)
                 date1 == setHours(date0, getHours(date0) + h)
                 newHour == PadStart2(toString(getHours(date1)))
                 newMinute == PadStart2(toString(getMinutes(date1)))
             IN  newHour \o <<":">> \o newMinute

\* hours.toFixed(2) of a duration held in minutes
HoursToFixed(d) ==
  IF d.nan
    THEN <<"N", "a", "N">>
    ELSE LET h == ToFixed2(d.v * 100, 60)
         IN  toString(h \div 100) \o <<".">> \o PadStart2(toString(h % 100))

morningStart == 5 * 60 + 45

morningEnd == 14 * 60 + 15

eveningStart == 13 * 60 + 45

eveningEnd == 22 * 60 + 15

getDefaultStartTime(n) ==
  LET totalMins == n.hr * 60 + n.min
  IN  IF totalMins >= morningStart /\ totalMins < morningEnd
        THEN <<"0", "5", ":", "4", "5">>
        ELSE IF totalMins >= eveningStart /\ totalMins < eveningEnd
          THEN <<"1", "3", ":", "4", "5">>
          ELSE <<"2", "1", ":", "4", "5">>

\* the form after the three onFormChange calls of handleStartTime
handleStartTime(f, newVal) ==
  LET autoEnd == addHours(newVal, 8)
      hours == computeHoursFromTimes(newVal, autoEnd)
  IN  [f EXCEPT !.startTime = newVal, !.endTime = autoEnd,
                !.hours = HoursToFixed(hours)]

\* the form after the onFormChange calls of handleEndTime
handleEndTime(f, newVal) ==
  IF f.startTime # <<>>
    THEN [f EXCEPT !.endTime = newVal,
                   !.hours = HoursToFixed(computeHoursFromTimes(f.startTime, newVal))]
    ELSE [f EXCEPT !.endTime = newVal]

\* the effect on [formData.startTime]: an empty sign-in time is set to the
\* default
defaultStartEffect(f, n) ==
  IF f.startTime = <<>> THEN [f EXCEPT !.startTime = getDefaultStartTime(n)] ELSE f

\* the effect on [formData.startTime, formData.endTime]: a sign-in time
\* with an empty sign-out time sets the sign-out time and the hours
autoSignOutEffect(f) ==
  IF f.startTime # <<>> /\ f.endTime = <<>>
    THEN LET autoEnd == addHours(f.startTime, 8)
             hours == computeHoursFromTimes(f.startTime, autoEnd)
         IN  [f EXCEPT !.endTime = autoEnd, !.hours = HoursToFixed(hours)]
    ELSE f

\* the form once the modal's effects have run after a render: the second
\* effect sees the sign-in time the first one set at the next render
modalEffects(f, n) == autoSignOutEffect(defaultStartEffect(f, n))

------------------------------------------------------------------------------
(* App.tsx                                                                   *)

timeToMins(h, m) == h * 60 + m

inRange(t, lo, hi) == t >= lo /\ t < hi

\* getOngoingShift testing the evening range before the morning range
getOngoingShiftEveningFirst(n) ==
  LET totalMins == n.hr * 60 + n.min
  IN  IF inRange(totalMins, timeToMins(13, 45), timeToMins(22, 15)) THEN "evening"
      ELSE IF inRange(totalMins, timeToMins(5, 45), timeToMins(14, 15)) THEN "morning"
      ELSE "night"

getPeriodForDate(d) == IF d.day >= 1 /\ d.day <= 15 THEN "Jakso 1" ELSE "Jakso 2"

\* the key of a date in data: `${year}-${month + 1, padded}-${day, padded}`
DateString(d) ==
  toString(d.year) \o <<"-">> \o PadStart2(toString(d.month + 1))
    \o <<"-">> \o PadStart2(toString(d.day))

getOngoingShift(n) ==
  LET totalMins == n.hr * 60 + n.min
  IN  IF inRange(totalMins, timeToMins(5, 45), timeToMins(14, 15)) THEN "morning"
      ELSE IF inRange(totalMins, timeToMins(13, 45), timeToMins(22, 15)) THEN "evening"
      ELSE "night"

\* parseFloat(s) in hundredths, for strings of at most two decimals: an
\* optional sign, digits, an optional point and digits; NaN when no digit
\* is read
parseFloat(s) ==
  LET signed == s # <<>> /\ (Head(s) = "-" \/ Head(s) = "+")
      body == IF signed THEN Tail(s) ELSE s
      ip == DigitPrefix(body)
      rest == SubSeq(body, ip + 1, Len(body))
      fr == IF rest # <<>> /\ Head(rest) = "." THEN Tail(rest) ELSE <<>>
      fp == DigitPrefix(fr)
      cents == IF fp = 0 THEN 0
               ELSE IF fp = 1 THEN 10 * DigitVal(fr[1])
               ELSE 10 * DigitVal(fr[1]) + DigitVal(fr[2])
      mag == 100 * DigitsVal(body, ip) + cents
  IN  IF ip = 0 /\ fp = 0 THEN NaN
      ELSE Num(IF signed /\ Head(s) = "-" THEN -mag ELSE mag)

\* the form as useState and the reset after a submission set it
EmptyForm ==
  [performance |-> <<>>, hours |-> <<"8">>, overtime |-> FALSE, freeDay |-> FALSE,
   startTime |-> <<>>, endTime |-> <<>>, trukki |-> FALSE]

\* PerformanceModal.handleSubmit lets the form through to onSubmit
modalValid(f) ==
  LET parsedPerformance == parseFloat(f.performance)
      parsedHours == parseFloat(f.hours)
  IN  /\ ~parsedPerformance.nan
      /\ ~(parsedHours.nan \/ parsedHours.v < 100 \/ parsedHours.v > 1600)

\* handleFormSubmit reaches setData
appValid(f) ==
  LET parsedPerformance == parseFloat(f.performance)
      parsedHours == parseFloat(f.hours)
  IN  /\ ~parsedPerformance.nan
      /\ ~(parsedHours.nan \/ parsedHours.v < 0 \/ parsedHours.v > 1600)

\* the updater starting the day's record afresh instead of from prevData
submitUpdaterFreshDay(prevData, dateString, f) ==
  LET track == IF f.trukki THEN "forklift" ELSE "normal"
      new == [performance |-> parseFloat(f.performance).v,
              hours |-> parseFloat(f.hours).v,
              overtime |-> f.overtime,
              freeDay |-> f.freeDay]
      newDay == [t \in {track} |-> new]
  IN  [k \in DOMAIN prevData \cup {dateString} |->
         IF k = dateString THEN newDay ELSE prevData[k]]

\* the updater handleFormSubmit hands to setData
submitUpdater(prevData, dateString, f) ==
  LET noTracks == [t \in {} |-> 0]
      dayData == IF dateString \in DOMAIN prevData THEN prevData[dateString] ELSE noTracks
      track == IF f.trukki THEN "forklift" ELSE "normal"
      new == [performance |-> parseFloat(f.performance).v,
              hours |-> parseFloat(f.hours).v,
              overtime |-> f.overtime,
              freeDay |-> f.freeDay]
      newDay == [t \in DOMAIN dayData \cup {track} |->
                   IF t = track THEN new ELSE dayData[t]]
  IN  [k \in DOMAIN prevData \cup {dateString} |->
         IF k = dateString THEN newDay ELSE prevData[k]]

\* the updater handleDeleteData hands to setData
deleteUpdater(prevData, dateString) ==
  [k \in DOMAIN prevData \ {dateString} |-> prevData[k]]

------------------------------------------------------------------------------
(* Calls of the calculator on bounded inputs.                                *)

IdleCalc == entry = [performance |-> 0, hours |-> 0,
                     overtime |-> FALSE, freeDay |-> FALSE]
            /\ eff = 0 /\ pct = 0

IdleScale == value = 0 /\ percentage = 0

IdleTime == /\ start = <<>> /\ end = <<>> /\ diff = Num(0)
            /\ time = <<>> /\ hoursToAdd = 0 /\ added = <<>>

IdleShift == now = [hr |-> 0, min |-> 0] /\ shift = "night" /\ defaultStart = <<>>

IdleData == /\ date = [year |-> 2025, month |-> 2, day |-> 15]
            /\ data = [k \in {} |-> 0]
            /\ period = "Jakso 1"

IdleAvg == overallAverageNormal = 0 /\ overallAverageForklift = 0

IdleForm == showModal = FALSE /\ autoShift = "morning" /\ formData = EmptyForm

IdleStore == stored = <<>> /\ ops = <<>> /\ resolved = <<>>

\* the value "HH:mm" an <input type="time"> holds
ClockTime(h, m) == PadStart2(toString(h)) \o <<":">> \o PadStart2(toString(m))

ClockTimes == {ClockTime(h, m) : h \in 0..23, m \in 0..59}

\* the end times tried: every hour, and minutes on both sides of the start's
GridMinutes == {0, 1, 15, 30, 45, 59}

GridTimes == {ClockTime(h, m) : h \in 0..23, m \in GridMinutes}

DateData(perfs, hourss) ==
  [performance : perfs, hours : hourss, overtime : BOOLEAN, freeDay : BOOLEAN]

InitEff ==
  /\ pc = "effectiveHours"
  /\ entry \in DateData({0}, 0..MaxHoursIn)
  /\ eff = 0
  /\ pct = 0
  /\ IdleScale /\ IdleTime /\ IdleShift /\ IdleData /\ IdleAvg /\ IdleForm
  /\ IdleStore

CallEffectiveHours ==
  /\ pc = "effectiveHours"
  /\ eff' = effectiveHours(entry.hours, entry.overtime, entry.freeDay)
  /\ pc' = "done"
  /\ UNCHANGED <<entry, pct, scaleVars, timeVars, shiftVars, appVars>>

InitPct ==
  /\ pc = "computePerformancePercentage"
  /\ entry \in DateData({25 * q : q \in -MaxPerfQ..MaxPerfQ}, 0..MaxHoursIn)
  /\ eff = 0
  /\ pct = 0
  /\ IdleScale /\ IdleTime /\ IdleShift /\ IdleData /\ IdleAvg /\ IdleForm
  /\ IdleStore

CallComputePerformancePercentage ==
  /\ pc = "computePerformancePercentage"
  /\ eff' = effectiveHours(entry.hours, entry.overtime, entry.freeDay)
  /\ pct' = computePerformancePercentage(entry)
  /\ pc' = "done"
  /\ UNCHANGED <<entry, scaleVars, timeVars, shiftVars, appVars>>

InitScale ==
  /\ pc = "calculatePercentage"
  /\ value \in -MaxValue..MaxValue
  /\ percentage = 0
  /\ IdleCalc /\ IdleTime /\ IdleShift /\ IdleData /\ IdleAvg /\ IdleForm
  /\ IdleStore

CallCalculatePercentage ==
  /\ pc = "calculatePercentage"
  /\ percentage' = calculatePercentage(value)
  /\ pc' = "done"
  /\ UNCHANGED <<value, calcVars, timeVars, shiftVars, appVars>>

InitDur ==
  /\ pc = "computeHoursFromTimes"
  /\ start \in ClockTimes \cup {<<>>}
  /\ end \in GridTimes \cup {<<>>}
  /\ diff = Num(0)
  /\ time = <<>> /\ hoursToAdd = 0 /\ added = <<>>
  /\ IdleCalc /\ IdleScale /\ IdleShift /\ IdleData /\ IdleAvg /\ IdleForm
  /\ IdleStore

CallComputeHoursFromTimes ==
  /\ pc = "computeHoursFromTimes"
  /\ diff' = computeHoursFromTimes(start, end)
  /\ pc' = "done"
  /\ UNCHANGED <<start, end, time, hoursToAdd, added, calcVars, scaleVars, shiftVars, appVars>>

InitAdd ==
  /\ pc = "addHours"
  /\ time \in ClockTimes
  /\ hoursToAdd \in -MaxDelta..MaxDelta
  /\ added = <<>>
  /\ start = <<>> /\ end = <<>> /\ diff = Num(0)
  /\ IdleCalc /\ IdleScale /\ IdleShift /\ IdleData /\ IdleAvg /\ IdleForm
  /\ IdleStore

CallAddHours ==
  /\ pc = "addHours"
  /\ added' = addHours(time, hoursToAdd)
  /\ pc' = "done"
  /\ UNCHANGED <<start, end, diff, time, hoursToAdd, calcVars, scaleVars, shiftVars, appVars>>

InitShift ==
  /\ pc = "getOngoingShift"
  /\ now \in [hr : 0..23, min : 0..59]
  /\ shift = "night"
  /\ defaultStart = <<>>
  /\ IdleCalc /\ IdleScale /\ IdleTime /\ IdleData /\ IdleAvg /\ IdleForm
  /\ IdleStore

CallGetOngoingShift ==
  /\ pc = "getOngoingShift"
  /\ shift' = getOngoingShift(now)
  /\ pc' = "getDefaultStartTime"
  /\ UNCHANGED <<now, defaultStart, calcVars, scaleVars, timeVars, appVars>>

CallGetDefaultStartTime ==
  /\ pc = "getDefaultStartTime"
  /\ defaultStart' = getDefaultStartTime(now)
  /\ pc' = "done"
  /\ UNCHANGED <<now, shift, calcVars, scaleVars, timeVars, appVars>>

\* the records a day can hold when the means are computed
AvgPerformances == {700, 725, 1088}

AvgEntries ==
  {[performance |-> p, hours |-> 800, overtime |-> FALSE, freeDay |-> FALSE] :
     p \in AvgPerformances}

Tracks == {"normal", "forklift"}

AvgDates == {[year |-> 2025, month |-> 2, day |-> 13 + i] : i \in 1..MaxDays}

AvgDailyData == UNION {[T -> AvgEntries] : T \in (SUBSET Tracks) \ {{}}}

InitAvg ==
  /\ pc = "render"
  /\ date \in AvgDates
  /\ period = getPeriodForDate(date)
  /\ data \in UNION {[K -> AvgDailyData] : K \in SUBSET {DateString(d) : d \in AvgDates}}
  /\ IdleAvg
  /\ IdleCalc /\ IdleScale /\ IdleTime /\ IdleShift /\ IdleForm
  /\ IdleStore

\* the two means the render computes; calculateAverage has no third
\* parameter for the track name the call adds
RenderAverages ==
  /\ pc = "render"
  /\ overallAverageNormal' = calculateAverage(data, period)
  /\ overallAverageForklift' = calculateAverage(data, period)
  /\ pc' = "done"
  /\ UNCHANGED <<dataVars, formVars, pureVars, shiftVars, storeVars>>

\* what the user types into the performance and hours fields; the form
\* starts with an empty performance
PerformanceInputs == {<<"7", ".", "2", "5">>, <<"-", "5">>}

HoursInputs == {<<"8">>, <<"1", "7">>}

\* the dates the calendar is clicked on: one of each period
AppDates == {[year |-> 2025, month |-> 2, day |-> d] : d \in {15, 16}}

InitApp ==
  /\ pc = "idle"
  /\ date \in AppDates
  /\ data = [k \in {} |-> 0]
  /\ period = getPeriodForDate(date)
  /\ now = [hr |-> 22, min |-> 30]
  /\ shift = "night" /\ defaultStart = <<>>
  /\ IdleForm /\ IdleAvg
  /\ IdleCalc /\ IdleScale /\ IdleTime
  /\ IdleStore

\* handleAddSuorite; what the modal's effects then do to the time fields of
\* the form is in ModalOpen
HandleAddSuorite ==
  /\ pc = "idle"
  /\ autoShift' = getOngoingShift(now)
  /\ showModal' = TRUE
  /\ UNCHANGED <<pc, formData, dataVars, avgVars, pureVars, shiftVars, storeVars>>

OnClose ==
  /\ pc = "idle" /\ showModal
  /\ showModal' = FALSE
  /\ UNCHANGED <<pc, autoShift, formData, dataVars, avgVars, pureVars, shiftVars, storeVars>>

\* the calendar's onChange with a Date
OnChange ==
  /\ pc = "idle"
  /\ \E newDate \in AppDates :
       /\ date' = newDate
       /\ period' = (IF newDate.day >= 1 /\ newDate.day <= 15 THEN "Jakso 1" ELSE "Jakso 2")
  /\ UNCHANGED <<pc, data, formVars, avgVars, pureVars, shiftVars, storeVars>>

\* handleFormChange for a text field
HandleFormChangeText ==
  /\ pc = "idle" /\ showModal
  /\ \/ \E v \in PerformanceInputs : formData' = [formData EXCEPT !.performance = v]
     \/ \E v \in HoursInputs : formData' = [formData EXCEPT !.hours = v]
  /\ UNCHANGED <<pc, showModal, autoShift, dataVars, avgVars, pureVars, shiftVars, storeVars>>

\* handleFormChange for a checkbox, whose click inverts checked
HandleFormChangeCheckbox ==
  /\ pc = "idle" /\ showModal
  /\ \E name \in {"overtime", "freeDay", "trukki"} :
       formData' = [formData EXCEPT ![name] = ~formData[name]]
  /\ UNCHANGED <<pc, showModal, autoShift, dataVars, avgVars, pureVars, shiftVars, storeVars>>

\* the modal's handleSubmit and, when it lets the form through, the
\* handleFormSubmit it calls
HandleSubmit ==
  /\ pc = "idle" /\ showModal
  /\ IF modalValid(formData) /\ appValid(formData)
       THEN /\ data' = submitUpdater(data, DateString(date), formData)
            /\ showModal' = FALSE
            /\ formData' = EmptyForm
            /\ UNCHANGED <<date, period, autoShift>>
       ELSE UNCHANGED <<dataVars, formVars>>
  /\ UNCHANGED <<pc, avgVars, pureVars, shiftVars, storeVars>>

HandleDeleteData ==
  /\ pc = "idle"
  /\ data' = deleteUpdater(data, DateString(date))
  /\ UNCHANGED <<pc, date, period, formVars, avgVars, pureVars, shiftVars, storeVars>>

\* the wall clock when the modal is used: a time of each default start
ModalNows == {[hr |-> 6, min |-> 0], [hr |-> 14, min |-> 30], [hr |-> 23, min |-> 0]}

\* what the sign-in input reports when it shows the time t: the input is
\* edited a field at a time, so t with another hour or with another minute,
\* or '' when it is cleared
StartInputs(t) ==
  LET h0 == parseInt(Split(t)[1]).v
      m0 == parseInt(Split(t)[2]).v
  IN  {ClockTime(h, m0) : h \in 0..23} \cup {ClockTime(h0, m) : m \in 0..59} \cup {<<>>}

\* what the sign-out input reports
EndInputs == {ClockTime(22, 59), <<>>}

InitModal ==
  /\ pc = "idle"
  /\ now \in ModalNows
  /\ shift = "night" /\ defaultStart = <<>>
  /\ IdleForm /\ IdleData /\ IdleAvg
  /\ IdleCalc /\ IdleScale /\ IdleTime
  /\ IdleStore

\* handleAddSuorite, the mount of the modal and the effects of its mount
ModalOpen ==
  /\ pc = "idle" /\ ~showModal
  /\ autoShift' = getOngoingShift(now)
  /\ showModal' = TRUE
  /\ formData' = modalEffects(formData, now)
  /\ UNCHANGED <<pc, dataVars, avgVars, pureVars, shiftVars, storeVars>>

\* the sign-in input's onChange and the effects of the renders it causes
HandleStartTime ==
  /\ pc = "idle" /\ showModal
  /\ \E newVal \in StartInputs(formData.startTime) :
       formData' = modalEffects(handleStartTime(formData, newVal), now)
  /\ UNCHANGED <<pc, showModal, autoShift, dataVars, avgVars, pureVars, shiftVars, storeVars>>

\* the sign-out input's onChange and the effects of the renders it causes
HandleEndTime ==
  /\ pc = "idle" /\ showModal
  /\ \E newVal \in EndInputs :
       formData' = modalEffects(handleEndTime(formData, newVal), now)
  /\ UNCHANGED <<pc, showModal, autoShift, dataVars, avgVars, pureVars, shiftVars, storeVars>>

\* a getItem('calendarData') request and the callback its promise runs
GetItem(callback) == [op |-> "getItem", then |-> callback]

\* a setItem('calendarData', value) request
SetItem(v) == [op |-> "setItem", value |-> v]

\* migrateOldData on records already in the DailyData shape
migrateOldData(storedData) == storedData

\* the requests the two effects on [date] make
LoadRequests == <<GetItem("migrate"), GetItem("plain")>>

Pending == Len(ops) + Len(resolved)

\* after the mount of App on a device that holds no 'calendarData': the
\* effects have run in the order they are declared
InitStore ==
  /\ pc = "idle"
  /\ date \in AppDates
  /\ data = [k \in {} |-> 0]
  /\ period = getPeriodForDate(date)
  /\ now = [hr |-> 22, min |-> 30]
  /\ shift = "night" /\ defaultStart = <<>>
  /\ IdleForm /\ IdleAvg
  /\ IdleCalc /\ IdleScale /\ IdleTime
  /\ stored = <<>>
  /\ ops = LoadRequests \o <<SetItem(data)>>
  /\ resolved = <<>>

\* the calendar's onChange with a Date, and the effects on [date]
OnChangeAndLoad ==
  /\ pc = "idle"
  /\ Pending + 2 <= MaxPending
  /\ \E newDate \in AppDates :
       /\ date' = newDate
       /\ period' = getPeriodForDate(newDate)
  /\ ops' = ops \o LoadRequests
  /\ UNCHANGED <<pc, data, formVars, avgVars, pureVars, shiftVars, stored, resolved>>

\* handleSubmit, handleFormSubmit and, when setData was called, the effect
\* on [data]
SubmitAndSave ==
  /\ pc = "idle" /\ showModal
  /\ IF modalValid(formData) /\ appValid(formData)
       THEN /\ Pending + 1 <= MaxPending
            /\ data' = submitUpdater(data, DateString(date), formData)
            /\ showModal' = FALSE
            /\ formData' = EmptyForm
            /\ ops' = Append(ops, SetItem(data'))
            /\ UNCHANGED <<date, period, autoShift>>
       ELSE UNCHANGED <<dataVars, formVars, ops>>
  /\ UNCHANGED <<pc, avgVars, pureVars, shiftVars, stored, resolved>>

\* handleDeleteData and the effect on [data]: the updater returns a new
\* object whether or not the date held a record
DeleteAndSave ==
  /\ pc = "idle"
  /\ Pending + 1 <= MaxPending
  /\ data' = deleteUpdater(data, DateString(date))
  /\ ops' = Append(ops, SetItem(data'))
  /\ UNCHANGED <<pc, date, period, formVars, avgVars, pureVars, shiftVars, stored, resolved>>

\* localforage carries out the oldest request: a setItem replaces what is
\* stored, a getItem resolves with what is stored
StorageRuns ==
  /\ pc = "idle"
  /\ ops # <<>>
  /\ LET req == Head(ops)
     IN  IF req.op = "setItem"
           THEN /\ stored' = <<req.value>>
                /\ UNCHANGED resolved
           ELSE /\ resolved' = Append(resolved, [then |-> req.then, storedData |-> stored])
                /\ UNCHANGED stored
  /\ ops' = Tail(ops)
  /\ UNCHANGED <<pc, dataVars, formVars, avgVars, pureVars, shiftVars>>

\* the then-callback of a getItem: a stored value replaces data, and the
\* effect on [data] saves the value just loaded
GetItemThen ==
  /\ pc = "idle"
  /\ resolved # <<>>
  /\ LET res == Head(resolved)
     IN  IF res.storedData # <<>>
           THEN /\ data' = (IF res.then = "migrate"
                              THEN migrateOldData(res.storedData[1])
                              ELSE res.storedData[1])
                /\ ops' = Append(ops, SetItem(data'))
           ELSE UNCHANGED <<data, ops>>
  /\ resolved' = Tail(resolved)
  /\ UNCHANGED <<pc, date, period, formVars, avgVars, pureVars, shiftVars, stored>>

vars == <<pc, calcVars, scaleVars, timeVars, shiftVars, appVars>>

NextStore ==
  \/ HandleAddSuorite
  \/ OnClose
  \/ HandleFormChangeText
  \/ OnChangeAndLoad
  \/ SubmitAndSave
  \/ DeleteAndSave
  \/ StorageRuns
  \/ GetItemThen

SpecStore == InitStore /\ [][NextStore]_vars

NextModal ==
  \/ ModalOpen
  \/ OnClose
  \/ HandleStartTime
  \/ HandleEndTime

SpecModal == InitModal /\ [][NextModal]_vars

NextEff == CallEffectiveHours

SpecEff == InitEff /\ [][NextEff]_vars

NextPct == CallComputePerformancePercentage

SpecPct == InitPct /\ [][NextPct]_vars

NextScale == CallCalculatePercentage

SpecScale == InitScale /\ [][NextScale]_vars

NextDur == CallComputeHoursFromTimes

SpecDur == InitDur /\ [][NextDur]_vars

NextAdd == CallAddHours

SpecAdd == InitAdd /\ [][NextAdd]_vars

NextAvg == RenderAverages

SpecAvg == InitAvg /\ [][NextAvg]_vars

NextApp ==
  \/ HandleAddSuorite
  \/ OnClose
  \/ OnChange
  \/ HandleFormChangeText
  \/ HandleFormChangeCheckbox
  \/ HandleSubmit
  \/ HandleDeleteData

SpecApp == InitApp /\ [][NextApp]_vars

NextShift == CallGetOngoingShift \/ CallGetDefaultStartTime

SpecShift == InitShift /\ [][NextShift]_vars

------------------------------------------------------------------------------
C4_PercentageRoundsHalfUp ==
  pc = "done" =>
    /\ eff <= 0 => pct = 0
    /\ eff > 0 =>
         /\ (2 * pct - 1) * eff <= 2 * entry.performance * 100000
         /\ 2 * entry.performance * 100000 < (2 * pct + 1) * eff
    /\ (entry.hours = 800 /\ ~entry.overtime /\ ~entry.freeDay) =>
         /\ entry.performance = 725 => pct = 100
         /\ entry.performance = 0 => pct = 0

\* a tie: 0.25 in 2 normal hours is 12.5 percent, returned as 13
C4_Witness ==
  /\ pc = "done" /\ eff = 200000
  /\ entry.performance = 25 /\ pct = 13

\* the minute of the day a string "HH:mm" names
MinuteOfDay(s) ==
  (DigitVal(s[1]) * 10 + DigitVal(s[2])) * 60 + DigitVal(s[4]) * 10 + DigitVal(s[5])

HourOf(s) == DigitVal(s[1]) * 10 + DigitVal(s[2])

C8_AddHoursWraps ==
  pc = "done" =>
    /\ Len(added) = 5 /\ added[3] = ":"
    /\ \A i \in {1, 2, 4, 5} : IsDigit(added[i])
    /\ HourOf(added) < 24 /\ MinuteOfDay(added) % 60 = MinuteOfDay(time) % 60
    /\ MinuteOfDay(added) = (MinuteOfDay(time) + 60 * hoursToAdd) % 1440
    /\ (time = <<"2", "1", ":", "4", "5">> /\ hoursToAdd = 8)
         => added = <<"0", "5", ":", "4", "5">>

\* 21:45 plus 8 hours has wrapped past midnight to 05:45
C8_Witness ==
  /\ pc = "done" /\ time = <<"2", "1", ":", "4", "5">> /\ hoursToAdd = 8
  /\ added = <<"0", "5", ":", "4", "5">>

(* C9: at minute m of the day the shift is morning for 05:45 <= m < 14:15,  *)
(* evening for 14:15 <= m < 22:15 and night otherwise, so 13:45..14:15 is   *)
(* morning, and the default start time is the start of that shift: 05:45,   *)
(* 13:45 or 21:45.                                                           *)
C9_ShiftAndDefaultStart ==
  pc = "done" =>
    LET m == now.hr * 60 + now.min
    IN  /\ shift = (IF 345 <= m /\ m < 855 THEN "morning"
                    ELSE IF 855 <= m /\ m < 1335 THEN "evening"
                    ELSE "night")
        /\ m = 840 => shift = "morning"
        /\ shift = "morning" => defaultStart = <<"0", "5", ":", "4", "5">>
        /\ shift = "evening" => defaultStart = <<"1", "3", ":", "4", "5">>
        /\ shift = "night" => defaultStart = <<"2", "1", ":", "4", "5">>

\* at 14:00, inside both ranges, both functions have answered morning
C9_Witness ==
  /\ pc = "done" /\ now = [hr |-> 14, min |-> 0]
  /\ shift = "morning" /\ defaultStart = <<"0", "5", ":", "4", "5">>

(* C5: every entry that passed the validation of the form is shown with a  *)
(* performance percentage that is an integer not below 0, whatever its      *)
(* overtime and free-day flags.                                              *)
C5_PercentageNonNegative ==
  \A k \in DOMAIN data : \A t \in DOMAIN data[k] :
    computePerformancePercentage(data[k][t]) >= 0

\* the keys of data whose date the period's filter includes and whose record
\* holds the track
SelectedKeys(track) ==
  {k \in DOMAIN data : filterDates(period, ParseDate(k)) /\ track \in DOMAIN data[k]}

RECURSIVE SumTrack(_, _)
SumTrack(track, keys) ==
  IF keys = {} THEN 0
  ELSE LET k == CHOOSE x \in keys : TRUE
       IN  data[k][track].performance + SumTrack(track, keys \ {k})

MeanOfTrack(track) ==
  IF SelectedKeys(track) = {} THEN 0
  ELSE ToFixed2(SumTrack(track, SelectedKeys(track)), Cardinality(SelectedKeys(track)))

(* C6: the mean of a track is taken over exactly the date keys the filter   *)
(* includes and whose record holds that track: the sum of those entries'    *)
(* raw performance divided by the number of those keys (here to two         *)
(* decimals, as the caller renders it), and 0 when there is none.            *)
C6_MeanOverTrack ==
  pc = "done" =>
    /\ overallAverageNormal = MeanOfTrack("normal")
    /\ overallAverageForklift = MeanOfTrack("forklift")

(* C10 as stated: calculatePercentage maps 7.25 to 100 and 10.88 to 150, is *)
(* round(((value - 7.25) / (10.88 - 7.25)) * 50 + 100) unclamped and        *)
(* non-decreasing, and is below 100 for every value below 7.25 and above    *)
(* 150 for every value above 10.88.                                          *)
C10_Original ==
  pc = "done" =>
    /\ value = 725 => percentage = 100
    /\ value = 1088 => percentage = 150
    /\ (2 * percentage - 1) * 363 <= 2 * ((value - 725) * 50 + 36300)
    /\ 2 * ((value - 725) * 50 + 36300) < (2 * percentage + 1) * 363
    /\ percentage <= calculatePercentage(value + 1)
    /\ value < 725 => percentage < 100
    /\ value > 1088 => percentage > 150

(* C10 amended: calculatePercentage maps 7.25 to 100 and 10.88 to 150, is   *)
(* round(((value - 7.25) / (10.88 - 7.25)) * 50 + 100) unclamped and        *)
(* non-decreasing, is at most 100 for every value below 7.25 and at least   *)
(* 150 for every value above 10.88; it is below 100 from 7.21 down and      *)
(* above 150 from 10.92 up.                                                  *)
C10_RescaleUnclamped ==
  pc = "done" =>
    /\ value = 725 => percentage = 100
    /\ value = 1088 => percentage = 150
    /\ (2 * percentage - 1) * 363 <= 2 * ((value - 725) * 50 + 36300)
    /\ 2 * ((value - 725) * 50 + 36300) < (2 * percentage + 1) * 363
    /\ percentage <= calculatePercentage(value + 1)
    /\ value < 725 => percentage <= 100
    /\ value > 1088 => percentage >= 150
    /\ value <= 721 => percentage < 100
    /\ value >= 1092 => percentage > 150

\* a mean of 12.00, above the band, has been mapped to 165
C10_Witness ==
  pc = "done" /\ value = 1200 /\ percentage = 165

\* the Entry a form stands for once both validations let it through
SubmittedEntry(f) ==
  [performance |-> parseFloat(f.performance).v,
   hours |-> parseFloat(f.hours).v,
   overtime |-> f.overtime,
   freeDay |-> f.freeDay]

\* the track a form is submitted to
SubmittedTrack(f) == IF f.trukki THEN "forklift" ELSE "normal"

\* a step is a submission that reached setData: a form both validations
\* accept is replaced by the empty form
IsSubmission ==
  /\ showModal /\ formData' = EmptyForm
  /\ modalValid(formData) /\ appValid(formData)

\* C11: a valid submission for the selected date d and track t makes the
\* stored Entry for (d, t) the submitted values, whatever Entry was there
\* before, keeps the other track of date d as it was (present with the same
\* Entry, or absent), and keeps the keys and the records of every other date.
C11_SubmissionFrame ==
  [][IsSubmission =>
       LET d == DateString(date)
           t == SubmittedTrack(formData)
       IN  /\ d \in DOMAIN data'
           /\ t \in DOMAIN data'[d]
           /\ data'[d][t] = SubmittedEntry(formData)
           /\ \A u \in Tracks \ {t} :
                 IF d \in DOMAIN data /\ u \in DOMAIN data[d]
                   THEN u \in DOMAIN data'[d] /\ data'[d][u] = data[d][u]
                   ELSE u \notin DOMAIN data'[d]
           /\ DOMAIN data' \ {d} = DOMAIN data \ {d}
           /\ \A k \in DOMAIN data \ {d} : data'[k] = data[k]]_vars

\* after a resubmission on the normal track of 2025-03-15: the forklift
\* Entry of that date and the record of 2025-03-16 are still stored
C11_Witness ==
  LET d15 == <<"2", "0", "2", "5", "-", "0", "3", "-", "1", "5">>
      d16 == <<"2", "0", "2", "5", "-", "0", "3", "-", "1", "6">>
  IN  /\ DOMAIN data = {d15, d16}
      /\ DOMAIN data[d15] = {"normal", "forklift"}
      /\ data[d15]["normal"].performance = -500
      /\ data[d15]["forklift"].performance = 725
      /\ data[d15]["forklift"].overtime
      /\ data[d16]["normal"].performance = 725
      /\ ~showModal /\ formData = EmptyForm

\* s is a clock time "HH:mm" of 00:00..23:59
IsClockTime(s) ==
  /\ Len(s) = 5
  /\ s[3] = ":"
  /\ \A i \in {1, 2, 4, 5} : IsDigit(s[i])
  /\ DigitVal(s[1]) * 10 + DigitVal(s[2]) <= 23
  /\ DigitVal(s[4]) * 10 + DigitVal(s[5]) <= 59

\* the form shows an eight-hour shift: the sign-out time is the clock time
\* eight hours after the sign-in time, on the next day when that passes
\* midnight, and the hours field, written from the duration between the
\* two, reads "8.00"
EightHourShift(f) ==
  /\ IsClockTime(f.startTime)
  /\ IsClockTime(f.endTime)
  /\ MinuteOfDay(f.endTime) = (MinuteOfDay(f.startTime) + 480) % 1440
  /\ f.hours = <<"8", ".", "0", "0">>

\* C13: whenever the sign-in time of the form is set or changed to a clock
\* time t, start times from 16:00 on included, the sign-out time becomes
\* t + 8 h, the duration between the two being 8 hours, and the hours field
\* becomes "8.00".
C13_SignOutFollowsSignIn ==
  [][\/ EightHourShift(formData')
     \/ ~(formData'.startTime # formData.startTime /\ IsClockTime(formData'.startTime))]_vars

\* the step is the sign-in input reporting the clock time the form then holds
SignInChosen ==
  /\ showModal
  /\ IsClockTime(formData'.startTime)
  /\ formData' = modalEffects(handleStartTime(formData, formData'.startTime), now)

\* the step sets the default sign-in time on a form with no sign-out time
SignInDefaulted ==
  /\ formData.startTime = <<>> /\ formData.endTime = <<>>
  /\ IsClockTime(formData'.startTime)

\* the part of C13 the code keeps: for every clock time t the sign-in input
\* reports, start times from 16:00 on included, and for the default sign-in
\* time set on a form whose sign-out time is empty, the sign-out time becomes
\* t + 8 h and the hours field becomes "8.00".
SignOutFollowsSignIn ==
  [][EightHourShift(formData') \/ ~(SignInChosen \/ SignInDefaulted)]_vars

\* C12: no update is lost: under every interleaving of the storage reads a
\* date change starts, the submissions, the deletions and the storage writes
\* they trigger, every step keeps each stored Entry of the in-memory data as
\* it is, unless the step is a submission for the Entry's date and track or
\* the deletion of its date.
C12_NoLostUpdate ==
  [][\A k \in DOMAIN data : \A t \in DOMAIN data[k] :
       \/ k \in DOMAIN data' /\ t \in DOMAIN data'[k] /\ data'[k][t] = data[k][t]
       \/ SubmitAndSave /\ k = DateString(date) /\ t = SubmittedTrack(formData)
       \/ DeleteAndSave /\ k = DateString(date)]_vars
====
